---------------------------- MODULE Spec2Model ----------------------------
(***************************************************************************)
(* A model of org-zotero-rust (src/src/main.rs): the section-preserving    *)
(* editor edit_file on the text of one note file, and the reconciliation   *)
(* loop of main over a batch of papers and a note store.                   *)
(*                                                                         *)
(* Text is a sequence of characters.  The marker "* zotero:highlights" is  *)
(* written as the one token "M"; "a", "A", "B", "OLD" and "NEW" stand for  *)
(* ordinary non-blank text.                                                *)
(***************************************************************************)
EXTENDS Naturals, Sequences, FiniteSets, TLC

VARIABLES
    orig,               \* the note file's text before the first edit_file call
    prev,               \* the note file's text before the last edit_file call that returned Ok
    content,            \* the note file's text on disk
    highlight_content,  \* the generated content last written by edit_file
    edit_result,        \* "none", or the Result of the last edit_file call
    edits               \* number of edit_file calls that returned Ok

editVars == <<orig, prev, content, highlight_content, edit_result, edits>>

VARIABLES
    rows,               \* the rows the documents query returns, the same at every run
    store,              \* the note store: file name -> note
    now,                \* the wall clock, in seconds
    run,                \* which run of main this is
    pc,                 \* where main is: "start", "loop", "exit_ok", "exit_err"
    error,              \* what made main return Err: "none", "startup", "rg", "db", "tera"
    rg_status,          \* how the rg command of this run ended
    existing_refs,      \* main's existing_refs: reference tag -> file name
    papers,             \* main's papers
    duplicate_titles,   \* main's duplicate_titles
    idx,                \* number of papers the loop of main has taken
    filename,           \* the file name the loop's last iteration made (<<>>: none)
    files_created,      \* main's files_created
    files_edited,       \* main's files_edited
    note_of             \* per paper, the file name of the note last created for it

runVars == <<rows, store, now, run, pc, error, rg_status, existing_refs, papers,
             duplicate_titles, idx, filename, files_created, files_edited, note_of>>

vars == <<editVars, runVars>>

-----------------------------------------------------------------------------
(* Bounds *)

MaxFileLen == 3
MaxEdits == 2
MaxPapers == 2
MaxRuns == 2
MaxClock == 1

-----------------------------------------------------------------------------
(* Text *)

LF == "\n"
CR == "\r"
SP == " "

Chars == {"a", "M", LF, CR, SP}

WhiteSpace == {LF, CR, SP}

StringsUpTo(n) == UNION {[1..k -> Chars] : k \in 0..n}

Min(S) == CHOOSE m \in S : \A k \in S : m <= k

DropLast(s) == SubSeq(s, 1, Len(s) - 1)

Last(s) == s[Len(s)]

\* str::split_inclusive('\n'): the pieces of s, each ending with its LF, the
\* last one possibly without; no empty piece.
RECURSIVE split_inclusive(_)
split_inclusive(s) ==
    IF s = <<>> THEN <<>>
    ELSE LET nl == {i \in 1..Len(s) : s[i] = LF}
         IN  IF nl = {} THEN <<s>>
             ELSE <<SubSeq(s, 1, Min(nl))>>
                    \o split_inclusive(SubSeq(s, Min(nl) + 1, Len(s)))

\* The closure of str::lines: strip the LF, and then one CR before it.
strip_line_ending(piece) ==
    IF piece # <<>> /\ Last(piece) = LF
    THEN LET l == DropLast(piece)
         IN  IF l # <<>> /\ Last(l) = CR THEN DropLast(l) ELSE l
    ELSE piece

\* str::lines
lines(s) ==
    LET pieces == split_inclusive(s)
    IN  [i \in 1..Len(pieces) |-> strip_line_ending(pieces[i])]

\* str::trim
RECURSIVE trim(_)
trim(s) ==
    IF s = <<>> THEN s
    ELSE IF s[1] \in WhiteSpace THEN trim(Tail(s))
    ELSE IF Last(s) \in WhiteSpace THEN trim(DropLast(s))
    ELSE s

\* [&str]::join("\n")
RECURSIVE join(_)
join(ls) ==
    IF ls = <<>> THEN <<>>
    ELSE IF Len(ls) = 1 THEN ls[1]
    ELSE ls[1] \o <<LF>> \o join(Tail(ls))

-----------------------------------------------------------------------------
(* edit_file *)

highlight_marker == <<"M">>

\* lines.iter().position(|line| line.trim() == highlight_marker)
marker_positions(ls) == {i \in 1..Len(ls) : trim(ls[i]) = highlight_marker}

\* .unwrap_or(0) in the place of .unwrap_or(lines.len())
highlight_index_zero(ls) ==
    IF marker_positions(ls) = {} THEN 0 ELSE Min(marker_positions(ls)) - 1

\* The marker line counted among the lines kept
highlight_index_inclusive(ls) ==
    IF marker_positions(ls) = {} THEN Len(ls) ELSE Min(marker_positions(ls))

\* .unwrap_or(lines.len()): the number of lines kept (the 0-based index of the
\* first marker line, or all lines)
highlight_index(ls) ==
    IF marker_positions(ls) = {} THEN Len(ls) ELSE Min(marker_positions(ls)) - 1

\* One line too few: lines[..highlight_index - 1]
kept_lines_short(text) ==
    SubSeq(lines(text), 1, highlight_index(lines(text)) - 1)

\* lines[..highlight_index]
kept_lines(text) == SubSeq(lines(text), 1, highlight_index(lines(text)))

\* push('\n') whatever the two texts are
separator_always(prefix, hl) == <<LF>>

\* if !new_content.is_empty() || !highlight_content.is_empty() { push('\n') }
separator(prefix, hl) == IF prefix # <<>> \/ hl # <<>> THEN <<LF>> ELSE <<>>

\* The text edit_file writes for a file holding text, given hl
new_content(text, hl) ==
    LET prefix == join(kept_lines(text))
    IN  prefix \o separator(prefix, hl) \o hl

-----------------------------------------------------------------------------
(* The editor alone: one note file, edited again and again *)

ExampleFile == <<"A", LF, "B", LF, "M", LF, "OLD">>

Files == StringsUpTo(MaxFileLen) \cup {ExampleFile}

Contents == {<<>>, <<"NEW">>, <<"M", LF, "NEW">>, <<"NEW", LF, "M">>}

\* The variables of main, at rest
RunIdle ==
    /\ rows = <<>>
    /\ store = <<>>
    /\ now = 0
    /\ run = 0
    /\ pc = "idle"
    /\ error = "none"
    /\ rg_status = "none"
    /\ existing_refs = <<>>
    /\ papers = <<>>
    /\ duplicate_titles = {}
    /\ idx = 0
    /\ filename = <<>>
    /\ files_created = 0
    /\ files_edited = 0
    /\ note_of = <<>>

InitEdit ==
    /\ RunIdle
    /\ orig \in Files
    /\ prev = orig
    /\ content = orig
    /\ highlight_content = <<>>
    /\ edit_result = "none"
    /\ edits = 0

\* edit_file(filename, _, hl)
EditFile ==
    /\ edits < MaxEdits
    /\ \/ \* fs::read_to_string(filename)? returns the error, or fs::write does
          /\ edit_result' = "Err"
          /\ UNCHANGED <<prev, content, highlight_content, edits>>
       \/ \E hl \in Contents :
          /\ content' = new_content(content, hl)
          /\ prev' = content
          /\ highlight_content' = hl
          /\ edit_result' = "Ok"
          /\ edits' = edits + 1
    /\ UNCHANGED <<orig, runVars>>

NextEdit == EditFile

SpecEdit == InitEdit /\ [][NextEdit]_vars

-----------------------------------------------------------------------------
(* The rows of the documents query, and map_row_to_paper *)

\* Option<String>: None (the column is NULL) and Some(s)
None == [is_some |-> FALSE, value |-> <<>>]

Some(s) == [is_some |-> TRUE, value |-> s]

Titles == {<<"F", "o", "o">>, <<"f", "o", "o">>}

Urls == {<<"http://x">>, <<"http://y">>}

UrlColumn == {None, Some(<<>>)} \cup {Some(u) : u \in Urls}

\* papers.itemID of the i-th row: the key of the items table
RowId(i) == 10 * (i - 1) + 2

\* The result sets of the documents query: the title and url columns of
\* each row
Batches == UNION {[1..n -> [title : Titles, url : UrlColumn]] : n \in 0..MaxPapers}

Digits == <<"0", "1", "2", "3", "4", "5", "6", "7", "8", "9">>

\* i64::to_string
RECURSIVE to_string(_)
to_string(n) ==
    IF n < 10 THEN <<Digits[n + 1]>>
    ELSE to_string(n \div 10) \o <<Digits[(n % 10) + 1]>>

\* url.is_some() alone
has_url_some(url) == url.is_some

\* url.is_some() && !url.as_ref().unwrap().is_empty()
has_url(url) == url.is_some /\ url.value # <<>>

\* url.unwrap_or_default()
source_url(url) == IF url.is_some THEN url.value ELSE <<>>

\* if has_url { source_url.clone() } else { format!("@zotero_{}", paper_id) }
roam_ref(paper_id, url) ==
    IF has_url(url) THEN source_url(url) ELSE <<"@zotero_">> \o paper_id

\* The Paper of the i-th row (the fields main reads)
map_row_to_paper(i, row) ==
    [id         |-> to_string(RowId(i)),
     has_url    |-> has_url(row.url),
     roam_ref   |-> roam_ref(to_string(RowId(i)), row.url),
     source_url |-> source_url(row.url),
     title      |-> row.title]

query_papers(rs) == [i \in 1..Len(rs) |-> map_row_to_paper(i, rs[i])]

-----------------------------------------------------------------------------
(* get_existing_refs *)

\* The tag on the ":ROAM_REFS:" line rg reports for file f:
\* rest.strip_prefix(":ROAM_REFS:"), then roam_ref.trim()
trimmed_ref(st, f) == trim(st[f].roam_refs)

\* The files whose line yields a non-empty tag
tagged_files(st) == {f \in DOMAIN st : trimmed_ref(st, f) # <<>>}

\* The maps refs_map.insert can build from rg's output: each tag found maps to
\* a file holding it, the one whose line rg printed last
refs_maps(st) ==
    LET tags == {trimmed_ref(st, f) : f \in tagged_files(st)}
    IN  {m \in [tags -> tagged_files(st)] : \A t \in tags : trimmed_ref(st, m[t]) = t}

-----------------------------------------------------------------------------
(* get_new_entry_filename, get_duplicate_titles *)

MaxSlugLen == 100

AlphaNum == {"f", "o"}

\* One character of the title as slug::slugify sees it
slug_char(c) == IF c = "F" THEN "f" ELSE IF c \in AlphaNum THEN c ELSE "-"

\* slugify's loop: a dash is pushed only after a non-dash
RECURSIVE squeeze(_, _)
squeeze(s, prev_is_dash) ==
    IF s = <<>> THEN <<>>
    ELSE IF slug_char(s[1]) = "-"
         THEN (IF prev_is_dash THEN <<>> ELSE <<"-">>) \o squeeze(Tail(s), TRUE)
         ELSE <<slug_char(s[1])>> \o squeeze(Tail(s), FALSE)

\* slug::slugify
slugify(title) ==
    LET s == squeeze(title, TRUE)
    IN  IF s # <<>> /\ Last(s) = "-" THEN DropLast(s) ELSE s

\* if slug.len() > 100 { slug[..100] } else { slug }
truncated_slug(title) ==
    IF Len(slugify(title)) > MaxSlugLen
    THEN SubSeq(slugify(title), 1, MaxSlugLen)
    ELSE slugify(title)

\* format!("{:x}", md5::compute(u))[..8]
truncated_hash(u) ==
    CASE u = <<"http://x">> -> "94831d84"
      [] u = <<"http://y">> -> "84d6d94d"

\* maybe_url_part
maybe_url_part(url) ==
    IF url.is_some /\ url.value # <<>>
    THEN <<"-", truncated_hash(url.value)>>
    ELSE <<>>

\* now.format("%Y%m%d%H%M%S") at second t: digits, of one width
timestamp(t) == <<Digits[t + 1]>>

\* The file name made at second t: "{timestamp}-{slug}{url part}.org"
get_new_entry_filename(t, title, url) ==
    timestamp(t) \o <<"-">> \o truncated_slug(title) \o maybe_url_part(url)
        \o <<".org">>

\* count > 0 in the place of count > 1
get_duplicate_titles_any(documents) ==
    {documents[i].title : i \in 1..Len(documents)}

\* The titles that count more than one document
get_duplicate_titles(documents) ==
    {documents[i].title : i \in
        {i \in 1..Len(documents) :
            Cardinality({j \in 1..Len(documents) :
                            documents[j].title = documents[i].title}) > 1}}

-----------------------------------------------------------------------------
(* The notes main writes *)

\* A note rendered from document.org.tera: its ":ROAM_REFS:" line carries the
\* context's roam_ref, above the marker line
document_org_tera(paper) == [roam_refs |-> paper.roam_ref, generated |-> "document"]

\* What edit_file leaves of a note: the lines above the marker, the
\* ":ROAM_REFS:" line among them, then the highlights
edited_note(note) == [note EXCEPT !.generated = "highlights"]

\* fs::write(f, note)
write(st, f, note) ==
    [g \in DOMAIN st \cup {f} |-> IF g = f THEN note ELSE st[g]]

\* The file name main makes for a paper without a note, at second t
new_filename(paper, dups, t) ==
    IF paper.title \in dups
    THEN get_new_entry_filename(t, paper.title,
            IF paper.has_url THEN Some(paper.source_url) ELSE None)
    ELSE get_new_entry_filename(t, paper.title, None)

EmptyStore == [f \in {} |-> 0]

\* The store an earlier run at second 0 leaves, in which the notes of the
\* first n papers that are in S were created
RECURSIVE earlier_store(_, _, _)
earlier_store(ps, S, n) ==
    IF n = 0 THEN EmptyStore
    ELSE IF n \in S
         THEN write(earlier_store(ps, S, n - 1),
                    new_filename(ps[n], get_duplicate_titles(ps), 0),
                    document_org_tera(ps[n]))
         ELSE earlier_store(ps, S, n - 1)

-----------------------------------------------------------------------------
(* main *)

\* The variables of the editor alone, at rest
EditIdle ==
    /\ orig = <<>>
    /\ prev = <<>>
    /\ content = <<>>
    /\ highlight_content = <<>>
    /\ edit_result = "none"
    /\ edits = 0

\* main starts on a store that holds notes of an earlier run
InitOneRun ==
    /\ EditIdle
    /\ rows \in Batches
    /\ store \in {earlier_store(query_papers(rows), S, Len(rows))
                    : S \in SUBSET (1..Len(rows))}
    /\ now = 0
    /\ run = 1
    /\ pc = "start"
    /\ error = "none"
    /\ rg_status = "none"
    /\ existing_refs = <<>>
    /\ papers = <<>>
    /\ duplicate_titles = {}
    /\ idx = 0
    /\ filename = <<>>
    /\ files_created = 0
    /\ files_edited = 0
    /\ note_of = [i \in 1..Len(rows) |-> <<>>]

\* main starts on an empty store
Init ==
    /\ EditIdle
    /\ rows \in Batches
    /\ store = EmptyStore
    /\ now = 0
    /\ run = 1
    /\ pc = "start"
    /\ error = "none"
    /\ rg_status = "none"
    /\ existing_refs = <<>>
    /\ papers = <<>>
    /\ duplicate_titles = {}
    /\ idx = 0
    /\ filename = <<>>
    /\ files_created = 0
    /\ files_edited = 0
    /\ note_of = [i \in 1..Len(rows) |-> <<>>]

\* main returns Err(e): the process exits with a failure
Fail(cause) ==
    /\ pc' = "exit_err"
    /\ error' = cause

\* main up to its loop: the templates, the directory, the database, the scan
\* of the store, the two queries and the duplicate titles
Startup ==
    /\ pc = "start"
    /\ UNCHANGED <<editVars, rows, store, now, run, idx, filename,
                   files_created, files_edited, note_of>>
    /\ \/ \* Tera::new(..)?, the is_dir test, Connection::open(..)?
          /\ Fail("startup")
          /\ UNCHANGED <<rg_status, existing_refs, papers, duplicate_titles>>
       \/ \* Command::new("rg")...output()? : rg could not be run
          /\ rg_status' = "spawn_error"
          /\ Fail("rg")
          /\ UNCHANGED <<existing_refs, papers, duplicate_titles>>
       \/ /\ \/ \* !output.status.success(): Ok(HashMap::new())
                /\ rg_status' = "failed"
                /\ existing_refs' = <<>>
             \/ \* rg found lines
                /\ tagged_files(store) # {}
                /\ rg_status' = "success"
                /\ existing_refs' \in refs_maps(store)
          /\ \/ \* query_papers(&conn)? or query_highlights(&conn)?
                /\ Fail("db")
                /\ UNCHANGED <<papers, duplicate_titles>>
             \/ \* papers.is_empty(): return Ok(())
                /\ rows = <<>>
                /\ papers' = <<>>
                /\ pc' = "exit_ok"
                /\ UNCHANGED <<error, duplicate_titles>>
             \/ /\ rows # <<>>
                /\ papers' = query_papers(rows)
                /\ duplicate_titles' = get_duplicate_titles(query_papers(rows))
                /\ pc' = "loop"
                /\ UNCHANGED error

\* for paper in &papers: one iteration
ProcessPaper ==
    /\ pc = "loop"
    /\ idx < Len(papers)
    /\ UNCHANGED <<editVars, rows, run, rg_status, existing_refs, papers,
                   duplicate_titles>>
    /\ LET paper == papers[idx + 1]
       IN  \/ \* generate_highlight_content(..)? : the Err leaves main
              /\ Fail("tera")
              /\ UNCHANGED <<store, now, idx, filename, files_created,
                             files_edited, note_of>>
           \/ \* existing_refs.get(&paper.roam_ref) is Some(filename)
              /\ paper.roam_ref \in DOMAIN existing_refs
              /\ idx' = idx + 1
              /\ filename' = <<>>
              /\ UNCHANGED <<pc, error, now, files_created, note_of>>
              /\ \/ \* edit_file is Ok
                    /\ store' = [store EXCEPT ![existing_refs[paper.roam_ref]] =
                                    edited_note(@)]
                    /\ files_edited' = files_edited + 1
                 \/ \* edit_file is Err(e)
                    /\ UNCHANGED <<store, files_edited>>
           \/ \* None: a new note, named at Local::now()
              /\ paper.roam_ref \notin DOMAIN existing_refs
              /\ idx' = idx + 1
              /\ UNCHANGED <<pc, error, files_edited>>
              /\ \E t \in {now, now + 1} :
                    /\ t <= MaxClock
                    /\ now' = t
                    /\ filename' = new_filename(paper, duplicate_titles, t)
              /\ \/ \* generate_file_content and fs::write are Ok
                    /\ store' = write(store, filename', document_org_tera(paper))
                    /\ files_created' = files_created + 1
                    /\ note_of' = [note_of EXCEPT ![idx + 1] = filename']
                 \/ \* generate_file_content is Err(e), or fs::write is
                    /\ UNCHANGED <<store, files_created, note_of>>

\* The summary, and Ok(())
Summary ==
    /\ pc = "loop"
    /\ idx = Len(papers)
    /\ pc' = "exit_ok"
    /\ UNCHANGED <<editVars, rows, store, now, run, error, rg_status,
                   existing_refs, papers, duplicate_titles, idx, filename,
                   files_created, files_edited, note_of>>

\* The program is run again, on the same database and the store as it is
RunAgain ==
    /\ pc \in {"exit_ok", "exit_err"}
    /\ run < MaxRuns
    /\ run' = run + 1
    /\ pc' = "start"
    /\ error' = "none"
    /\ rg_status' = "none"
    /\ existing_refs' = <<>>
    /\ papers' = <<>>
    /\ duplicate_titles' = {}
    /\ idx' = 0
    /\ filename' = <<>>
    /\ files_created' = 0
    /\ files_edited' = 0
    /\ \E t \in {now, now + 1} : t <= MaxClock /\ now' = t
    /\ UNCHANGED <<editVars, rows, store, note_of>>

NextOneRun == Startup \/ ProcessPaper \/ Summary

\* One run of main
SpecOneRun == InitOneRun /\ [][NextOneRun]_vars

Next == Startup \/ ProcessPaper \/ Summary \/ RunAgain

\* Runs of main, one after the other
Spec == Init /\ [][Next]_vars

-----------------------------------------------------------------------------
(* Properties of edit_file, checked under SpecEdit *)

IsPrefix(s, t) == Len(s) <= Len(t) /\ SubSeq(t, 1, Len(s)) = s

HasMarker(text) == marker_positions(lines(text)) # {}

\* The lines of the original file that stood strictly before its first marker
\* line (all of its lines when it has none)
UserLines == kept_lines(orig)

EndsWithCR(l) == l # <<>> /\ Last(l) = CR

NoLineEndsWithCR(ls) == \A i \in 1..Len(ls) : ~EndsWithCR(ls[i])

\* C1 as stated: after any number of edit_file runs on a file with a marker
\* line, the lines that stood before the first marker line of the original are
\* still the first lines of the file.
C1_UserLinesKept_AsStated ==
    (edits >= 1 /\ HasMarker(orig)) => IsPrefix(UserLines, lines(content))

\* C1, amended: after any number of edit_file runs, the lines that stood before
\* the first marker line of the original file (none of them ending in a
\* carriage return) are still the first lines of the file, unless they are one
\* single empty line and the content last written is empty.
C1_UserLinesKept ==
    ( /\ edits >= 1
      /\ NoLineEndsWithCR(UserLines)
      /\ ~(UserLines = << <<>> >> /\ highlight_content = <<>>) )
    => IsPrefix(UserLines, lines(content))

\* C1, reached: the example file after two edits, its lines "A" and "B" first
C1_Witness ==
    /\ edits = 2
    /\ orig = ExampleFile
    /\ highlight_content = <<"NEW">>
    /\ SubSeq(lines(content), 1, 2) = << <<"A">>, <<"B">> >>

\* C2 as stated: editing "A\nB\n<marker>\nOLD" with "NEW" yields "A\nB\n\nNEW".
C2_Example_AsStated ==
    (edits = 1 /\ orig = ExampleFile /\ highlight_content = <<"NEW">>)
    => content = <<"A", LF, "B", LF, LF, "NEW">>

\* C2, amended: editing "A\nB\n<marker>\nOLD" with "NEW" yields "A\nB\nNEW";
\* in general the written text is the kept lines joined by newlines, then one
\* newline unless both that prefix and the new content are empty, then the new
\* content.
C2_WrittenText ==
    edits >= 1 =>
        LET P == join(kept_lines(prev))
            n == Len(P)
            k == IF P = <<>> /\ highlight_content = <<>> THEN 0 ELSE 1
        IN  /\ Len(content) = n + k + Len(highlight_content)
            /\ SubSeq(content, 1, n) = P
            /\ k = 1 => content[n + 1] = LF
            /\ SubSeq(content, n + k + 1, Len(content)) = highlight_content
            /\ (prev = ExampleFile /\ highlight_content = <<"NEW">>)
               => content = <<"A", LF, "B", LF, "NEW">>

\* C2, reached: the example file edited with "NEW"
C2_Witness ==
    /\ edits = 1
    /\ orig = ExampleFile
    /\ highlight_content = <<"NEW">>
    /\ content = <<"A", LF, "B", LF, "NEW">>

\* C3 as stated: edit_file on a file without a marker line keeps nothing of
\* it: the file becomes the new content (after the separator of an empty
\* prefix).
C3_NoMarkerReplaces_AsStated ==
    (edits = 1 /\ ~HasMarker(orig))
    => content \in {highlight_content, <<LF>> \o highlight_content}

\* C3, amended: edit_file on a file without a marker line keeps every line of
\* it: the file becomes its lines joined by newlines, then the separator, then
\* the new content.
C3_NoMarkerAppends ==
    (edits = 1 /\ ~HasMarker(orig))
    => /\ IsPrefix(join(lines(orig)), content)
       /\ content = join(lines(orig))
                      \o (IF join(lines(orig)) = <<>> /\ highlight_content = <<>>
                          THEN <<>> ELSE <<LF>>)
                      \o highlight_content

\* C3, reached: a file of two lines and no marker, edited with "NEW"
C3_Witness ==
    /\ edits = 1
    /\ orig = <<"a", LF, "a">>
    /\ highlight_content = <<"NEW">>
    /\ content = <<"a", LF, "a", LF, "NEW">>

\* A second edit_file call that writes the generated content the call before
\* it wrote
SameContentAgain ==
    /\ edits >= 1
    /\ edits' = edits + 1
    /\ highlight_content' = highlight_content

StartsWithMarkerLine(hl) == 1 \in marker_positions(lines(hl))

\* C4 as stated: edit_file applied twice in a row with the same generated
\* content leaves the file as it was after the first application, whatever the
\* file and the content.
C4_Idempotent_AsStated == [][SameContentAgain => content' = content]_vars

\* C4, amended: edit_file applied twice in a row with the same generated
\* content leaves the file as it was after the first application, when that
\* content is empty or its first line is the marker line, and no line the first
\* application kept ends in a carriage return.
C4_Idempotent ==
    [][ ( /\ SameContentAgain
          /\ highlight_content = <<>> \/ StartsWithMarkerLine(highlight_content)
          /\ NoLineEndsWithCR(kept_lines(prev)) )
        => content' = content ]_vars

\* C4, reached: the example file edited twice with the same content, which
\* starts with the marker line
C4_Witness ==
    /\ edits = 2
    /\ orig = ExampleFile
    /\ highlight_content = <<"M", LF, "NEW">>
    /\ prev = <<"A", LF, "B", LF, "M", LF, "NEW">>
    /\ content = prev

-----------------------------------------------------------------------------
(* Properties of map_row_to_paper and of the create path, checked under
   SpecOneRun *)

\* The url column of row i is present and not empty
UrlGiven(i) == rows[i].url.is_some /\ rows[i].url.value # <<>>

\* The synthetic tags differ from paper to paper
SyntheticTagsDiffer ==
    \A i, j \in 1..Len(papers) :
        (i # j /\ ~UrlGiven(i) /\ ~UrlGiven(j))
        => papers[i].roam_ref # papers[j].roam_ref

\* C7 as stated: a paper with a non-empty URL has that URL as its reference
\* tag, any other paper has "ref_" followed by its id, and no two of these
\* synthetic tags are the same.
C7_ReferenceTag_AsStated ==
    /\ \A i \in 1..Len(papers) :
          papers[i].roam_ref = IF UrlGiven(i) THEN rows[i].url.value
                               ELSE <<"ref_">> \o papers[i].id
    /\ SyntheticTagsDiffer

\* C7, amended: a paper with a non-empty URL has that URL as its reference
\* tag, any other paper has "@zotero_" followed by its id, and no two of these
\* synthetic tags are the same.
C7_ReferenceTag ==
    /\ \A i \in 1..Len(papers) :
          papers[i].roam_ref = IF UrlGiven(i) THEN rows[i].url.value
                               ELSE <<"@zotero_">> \o papers[i].id
    /\ SyntheticTagsDiffer

\* C7, reached: two papers without a URL, one with an empty one, and their tags
C7_Witness ==
    /\ Len(papers) = 2
    /\ rows[1].url = Some(<<>>)
    /\ rows[2].url = None
    /\ papers[1].roam_ref = <<"@zotero_", "2">>
    /\ papers[2].roam_ref = <<"@zotero_", "1", "2">>

\* The title of row i is the title of another row too
TitleRepeated(i) == \E j \in 1..Len(rows) : j # i /\ rows[j].title = rows[i].title

\* The name "<timestamp>-<slug>.org" of second t for row i, with the hash of
\* the row's URL before the extension when suffixed
ExpectedName(i, t, suffixed) ==
    timestamp(t) \o <<"-">> \o truncated_slug(rows[i].title)
        \o (IF suffixed THEN <<"-", truncated_hash(rows[i].url.value)>> ELSE <<>>)
        \o <<".org">>

\* C8: the name main makes for a new note carries the URL-hash suffix if and
\* only if the paper's title occurs at least twice in the batch and the paper
\* has a non-empty URL; otherwise it is the plain <timestamp>-<slug> name.
C8_HashSuffix ==
    /\ filename # <<>>
       => filename = ExpectedName(idx, now, TitleRepeated(idx) /\ UrlGiven(idx))
    /\ \A i \in 1..Len(note_of) :
          note_of[i] # <<>>
          => \E t \in 0..MaxClock :
                note_of[i] = ExpectedName(i, t, TitleRepeated(i) /\ UrlGiven(i))

\* C8, reached: two papers titled "Foo", the first with a URL, both created
C8_Witness ==
    /\ pc = "exit_ok"
    /\ Len(rows) = 2
    /\ rows[1] = [title |-> <<"F", "o", "o">>, url |-> Some(<<"http://x">>)]
    /\ rows[2] = [title |-> <<"F", "o", "o">>, url |-> None]
    /\ files_created = 2
    /\ note_of[1] = <<"0", "-", "f", "o", "o", "-", "94831d84", ".org">>
    /\ note_of[2] = <<"0", "-", "f", "o", "o", ".org">>

-----------------------------------------------------------------------------
(* Properties of main over its runs, checked under Spec *)

\* C5: a templating failure while rendering a document does not make main
\* return the error: the loop goes on and the run ends with the summary.
C5_RenderFailureCaught == ~(pc = "exit_err" /\ error = "tera")

\* C6: when rg cannot be run at all, get_existing_refs yields an empty map
\* and the run goes on.
C6_ScanFailureDegrades ==
    rg_status = "spawn_error" => (pc # "exit_err" /\ existing_refs = <<>>)

\* The loop takes paper i
Takes(i) == pc = "loop" /\ idx = i - 1 /\ idx' = i

\* C9: a paper whose note an earlier run created is found by the index of a
\* later run whose scan succeeds, and takes the update path: no note is
\* created for it a second time.
C9_CreatedOnce ==
    [][ \A i \in 1..Len(rows) :
          (Takes(i) /\ note_of[i] # <<>> /\ rg_status = "success")
          => /\ papers[i].roam_ref \in DOMAIN existing_refs
             /\ files_created' = files_created ]_vars

\* C10: in one run, two papers that take the create path are written to two
\* different paths, and files_created is the number of new files in the store.
C10_UniquePaths ==
    run = 1 =>
        /\ \A i, j \in 1..Len(note_of) :
              (i # j /\ note_of[i] # <<>>) => note_of[i] # note_of[j]
        /\ files_created = Cardinality(DOMAIN store)

=============================================================================
